---- MODULE Spec2Model ----
(***************************************************************************)
(* The retrieval / augmentation / summarization / synthesis agent of the   *)
(* creative document processor (app/services/langgraph_agent.py), with the *)
(* event queue its status lines are put on (app/api/routes/query.py) and   *)
(* the SSE framing of those lines (app/services/sse.py).                   *)
(*                                                                         *)
(* A Python str is modelled as the sequence of its lines (its split on     *)
(* "\n"), each line being a sequence of tokens, so that framing a text is  *)
(* an operation on lines and not the identity.                             *)
(***************************************************************************)
EXTENDS Integers, Sequences, FiniteSets, TLC

\* ---- bounds of the model ----
MaxIndex == 3       \* chunks in the knowledge base's collection at start
MaxProducts == 2    \* products one external search returns at most
MaxRouteIndex == 3  \* chunks in the collection when a request is served
\* calls of put() and of close() made on one SSEGenerator
MaxPuts == 3
MaxCloses == 2
MaxText == 3        \* characters of a text given to encode_sse_event
MaxScraperCalls == 3    \* calls of search_products_internal in a row
MaxTokens == 3      \* tokens a streaming callback produces

\* ---- program constants ----
N_RESULTS == 5      \* n_results=5 of both index queries
MIN_CHUNKS == 2     \* len(chunks) < 2 triggers the scraper
MOCK_CHUNK == 3     \* words per streamed piece of the route's mock answer

None == "None"

RESUMES == "resumes"
API_DOCS == "api_docs"
RECIPES == "recipes"
SUPPLEMENTS == "supplements"
KnowledgeBaseType == {RESUMES, API_DOCS, RECIPES, SUPPLEMENTS}

\* kb_type is a plain str for run_agent; "other" stands for any str that is
\* not a member of the enum.
KbInputs == KnowledgeBaseType \cup {"other"}

\* documents owning the chunks of the collection; "prod" owns the chunks the
\* scraper embeds.
Docs == {"d1", "d2"}
DocumentIds == {None, "d1"}

\* what a model call answers: the empty text or some text.
Contents == {"", "txt"}

END == "END"

Min(a, b) == IF a < b THEN a ELSE b

\* ---- str values ----
Text(s) == << <<s>> >>

STATUS_RETRIEVAL == Text("Retrieving relevant information...")
STATUS_SCRAPER == Text("Searching for up-to-date product information...")
STATUS_PARSER == Text("Analyzing retrieved information...")
STATUS_CREATIVE == Text("Generating creative response...")
STATUS_DRAFT == Text("Crafting initial response...")
STATUS_CRITIQUE == Text("Evaluating response quality...")
STATUS_REFINE == Text("Refining response...")
StatusFound(n) == << <<"Found ", ToString(n), " relevant products. Analyzing...">> >>

\* encode_sse_event on a str: the event line, one data line per line of the
\* text, then "\n" (which leaves two empty pieces when split on "\n").
encode_sse_event(data, event_type) ==
    << <<"event: ", event_type>> >>
    \o [k \in 1..Len(data) |-> <<"data: ">> \o data[k]]
    \o << <<>>, <<>> >>

\* encode_sse_event on anything else: one data line holding json.dumps(data)
encode_sse_event_json(data, event_type) ==
    << <<"event: ", event_type>>, <<"data: ", [json |-> data]>>, <<>>, <<>> >>

\* ---- the vector index ----
Chunk(id, doc) ==
    [id |-> id, document |-> "text of chunk " \o ToString(id),
     metadata |-> [document_id |-> doc]]

Indexes(max) ==
    UNION { { [k \in 1..n |-> Chunk(k, f[k])] : f \in [1..n -> Docs] } :
            n \in 0..max }

InitialIndexes == Indexes(MaxIndex)

\* query_vector_store: the n_results nearest chunks of the collection, in
\* relevance order, restricted to the filter's document when there is one.
query_vector_store(idx, n_results, filter_dict) ==
    LET matching == SelectSeq(idx, LAMBDA c :
                        filter_dict = None \/ c.metadata.document_id = filter_dict)
    IN  SubSeq(matching, 1, Min(n_results, Len(matching)))

\* _embed_products: the new products' chunks enter the collection; where they
\* rank for the query is the embedding's business (pos).
embed_products(idx, n, pos) ==
    SubSeq(idx, 1, pos)
    \o [k \in 1..n |-> Chunk(MaxIndex + k, "prod")]
    \o SubSeq(idx, pos + 1, Len(idx))

\* ---- state ----
VARIABLES
    entry,            \* what the caller invoked: run_agent, or parser_node directly
    args,             \* run_agent's parameters query, kb_type, document_id
    stream_callback,  \* whether a stream_callback was passed
    index,            \* the collection of the run's knowledge base
    state,            \* the AgentState the graph threads through the nodes
    pc,               \* position of the task
    parsed_chunks,    \* parser_node's local list
    products,         \* scraper_tool_node's local: number of products found
    draft,            \* creative_node's locals
    critique,
    result,           \* what the caller gets back
    queue,            \* the asyncio.Queue behind stream_callback
    trace             \* observable calls in the order they were made

\* the query route's event_generator around the task (query.py)
VARIABLES
    request,          \* the QueryRequest: kb, prompt, doc_id
    api_key,          \* whether settings.GOOGLE_API_KEY is set
    cpc,              \* position of event_generator
    words_sent,       \* how many words of the mock answer were streamed
    sent              \* what event_generator has yielded to the client

route_vars == <<request, api_key, cpc, words_sent, sent>>

\* one SSEGenerator with its producers and the consumer of iterator() (sse.py)
VARIABLES
    g_queue,          \* SSEGenerator._queue
    g_closed,         \* SSEGenerator._closed
    ipc,              \* position of iterator()
    g_yielded,        \* what iterator() has yielded
    g_calls,          \* the put() and close() calls made, in order
    g_registered      \* the generator's id is a key of SSEManager._generators

channel_vars == <<g_queue, g_closed, ipc, g_yielded, g_calls, g_registered>>

\* one call of encode_sse_event (sse.py)
VARIABLES
    enc_data,         \* the data argument
    enc_type,         \* the event_type argument
    enc_out           \* the str returned

enc_vars == <<enc_data, enc_type, enc_out>>

\* the requests the query route serves at the same time (query.py)
VARIABLES
    reqs              \* per request: its generator's and its task's locals

conc_vars == <<reqs>>

\* the browser sessions of search_products_internal (scraper.py,
\* playwright_tools.py)
VARIABLES
    spc,              \* position of the call of search_products_internal
    launched,         \* browsers launched so far
    closed,           \* browsers closed so far
    searches,         \* calls of search_products_internal made so far
    found             \* what the last call returned: a number of products

scr_vars == <<spc, launched, closed, searches, found>>

\* one response of create_streaming_response (sse.py)
VARIABLES
    s_queue,          \* the queue SSECallback puts tokens on
    s_task,           \* the task running callback(sse_callback)
    s_pc,             \* position of stream_generator
    s_sent,           \* what stream_generator has yielded
    s_tokens          \* the tokens the callback was given, in order

csr_vars == <<s_queue, s_task, s_pc, s_sent, s_tokens>>

vars == <<entry, args, stream_callback, index, state, pc, parsed_chunks, products,
          draft, critique, result, queue, trace, route_vars, channel_vars,
          enc_vars, conc_vars, scr_vars, csr_vars>>

\* no request is being served / no channel exists
NoRoute ==
    /\ request = [kb |-> None, prompt |-> None, doc_id |-> None]
    /\ api_key = TRUE
    /\ cpc = "none"
    /\ words_sent = 0
    /\ sent = <<>>

NoEncode ==
    /\ enc_data = None
    /\ enc_type = None
    /\ enc_out = None

NoRequests == reqs = <<>>

NoScraper ==
    /\ spc = "none"
    /\ launched = 0
    /\ closed = 0
    /\ searches = 0
    /\ found = 0

NoStreaming ==
    /\ s_queue = <<>>
    /\ s_task = "none"
    /\ s_pc = "none"
    /\ s_sent = <<>>
    /\ s_tokens = <<>>

NoChannel ==
    /\ g_queue = <<>>
    /\ g_closed = FALSE
    /\ ipc = "none"
    /\ g_yielded = <<>>
    /\ g_calls = <<>>
    /\ g_registered = FALSE

\* run_agent's initial_state
AgentState(kb_type, query, document_id) ==
    [kb_type |-> kb_type, query |-> query, document_id |-> document_id,
     retrieved_chunks |-> <<>>, parsed_chunks |-> <<>>,
     creative_output |-> None, final_answer |-> None,
     scraper_needed |-> FALSE, scraper_query |-> None]

Op(op, arg) == [op |-> op, arg |-> arg]

\* await stream_callback(encode_sse_event(text)) under "if stream_callback"
Put(q, text) ==
    IF stream_callback THEN Append(q, encode_sse_event(text, "message")) ELSE q
TracePut(tr, text) ==
    IF stream_callback THEN Append(tr, Op("put", text)) ELSE tr

\* ---- the conditional edges of build_agent_graph ----
\* variant: the scraper_needed test inverted
route_retrieval_inverted(s) ==
    IF ~s.scraper_needed THEN "scraper_tool"
    ELSE IF s.retrieved_chunks # <<>> /\ s.parsed_chunks = <<>> THEN "parser"
    ELSE IF s.parsed_chunks # <<>> /\ s.final_answer \in {None, ""} THEN "creative"
    ELSE END

route_retrieval(s) ==
    IF s.scraper_needed THEN "scraper_tool"
    ELSE IF s.retrieved_chunks # <<>> /\ s.parsed_chunks = <<>> THEN "parser"
    ELSE IF s.parsed_chunks # <<>> /\ s.final_answer \in {None, ""} THEN "creative"
    ELSE END

\* variant: the scraper's edge consults scraper_needed like retrieval's does
route_scraper_tool_reenter(s) ==
    IF s.scraper_needed THEN "scraper_tool"
    ELSE IF s.retrieved_chunks # <<>> /\ s.parsed_chunks = <<>> THEN "parser"
    ELSE IF s.parsed_chunks # <<>> /\ s.final_answer \in {None, ""} THEN "creative"
    ELSE END

\* variant: the scraper's edge reaches the parser without retrieved chunks
route_scraper_tool_any_chunks(s) ==
    IF s.parsed_chunks = <<>> THEN "parser"
    ELSE IF s.parsed_chunks # <<>> /\ s.final_answer \in {None, ""} THEN "creative"
    ELSE END

route_scraper_tool(s) ==
    IF s.retrieved_chunks # <<>> /\ s.parsed_chunks = <<>> THEN "parser"
    ELSE IF s.parsed_chunks # <<>> /\ s.final_answer \in {None, ""} THEN "creative"
    ELSE END

route_parser(s) ==
    IF s.parsed_chunks # <<>> /\ s.final_answer \in {None, ""} THEN "creative"
    ELSE END

route_creative(s) == END

\* where control goes when a node returns / raises: along the graph's edge
\* (resp. into run_agent's except clause), or back to the direct caller.
Next_pc(edge) == IF entry = "run_agent" THEN edge ELSE "returned"
Raise_pc == IF entry = "run_agent" THEN "except" ELSE "raised"

\* ---- Node 1: retrieval_node ----
filter_dict_of(document_id) ==
    IF document_id \notin {None, ""} THEN document_id ELSE None

\* variant: the threshold compared with <= instead of <
scraper_needed_of_le(kb_type, chunks) ==
    kb_type = SUPPLEMENTS /\ (chunks = <<>> \/ Len(chunks) <= MIN_CHUNKS)

\* variant: only an empty result asks for the scraper
scraper_needed_of_empty(kb_type, chunks) ==
    kb_type = SUPPLEMENTS /\ chunks = <<>>

scraper_needed_of(kb_type, chunks) ==
    kb_type = SUPPLEMENTS /\ (chunks = <<>> \/ Len(chunks) < MIN_CHUNKS)

retrieval_status ==
    /\ pc = "retrieval"
    /\ queue' = Put(queue, STATUS_RETRIEVAL)
    /\ trace' = TracePut(Append(trace, Op("node", "retrieval")), STATUS_RETRIEVAL)
    /\ pc' = "retrieval_query"
    /\ UNCHANGED <<route_vars, channel_vars, enc_vars, conc_vars, scr_vars, csr_vars, entry, args, stream_callback, index, state, parsed_chunks,
                   products, draft, critique, result>>

retrieval_query ==
    /\ pc = "retrieval_query"
    /\ LET filter_dict == filter_dict_of(state.document_id)
           chunks == query_vector_store(index, N_RESULTS, filter_dict)
           scraper_needed == scraper_needed_of(state.kb_type, chunks)
       IN  /\ \/ /\ trace' = trace \o <<Op("index_query", filter_dict),
                                      Op("index_result", Len(chunks))>>
                 /\ state' = [state EXCEPT
                        !.retrieved_chunks = chunks,
                        !.scraper_needed = scraper_needed,
                        !.scraper_query = IF scraper_needed THEN state.query ELSE None]
                 /\ pc' = Next_pc(route_retrieval(state'))
              \/ /\ trace' = Append(trace, Op("index_query", filter_dict))
                 /\ pc' = Raise_pc      \* the index is unavailable
                 /\ UNCHANGED state
    /\ UNCHANGED <<route_vars, channel_vars, enc_vars, conc_vars, scr_vars, csr_vars, entry, args, stream_callback, index, parsed_chunks, products,
                   draft, critique, result, queue>>

\* ---- Node 2: scraper_tool_node ----
\* variant: the search is started without its status line
scraper_tool_entry_silent ==
    /\ pc = "scraper_tool"
    /\ trace' = Append(trace, Op("node", "scraper_tool"))
    /\ pc' = IF ~state.scraper_needed
             THEN Next_pc(route_scraper_tool(state))
             ELSE "scraper_search"
    /\ UNCHANGED <<route_vars, channel_vars, enc_vars, conc_vars, scr_vars, csr_vars, entry, args,
                   stream_callback, index, state, parsed_chunks, products, draft,
                   critique, result, queue>>

scraper_tool_entry ==
    /\ pc = "scraper_tool"
    /\ IF ~state.scraper_needed
       THEN /\ trace' = Append(trace, Op("node", "scraper_tool"))
            /\ pc' = Next_pc(route_scraper_tool(state))
            /\ UNCHANGED queue
       ELSE /\ queue' = Put(queue, STATUS_SCRAPER)
            /\ trace' = TracePut(Append(trace, Op("node", "scraper_tool")),
                                 STATUS_SCRAPER)
            /\ pc' = "scraper_search"
    /\ UNCHANGED <<route_vars, channel_vars, enc_vars, conc_vars, scr_vars, csr_vars, entry, args, stream_callback, index, state, parsed_chunks,
                   products, draft, critique, result>>

\* variant: a search that comes back empty is raised as an error
scraper_search_raises_on_empty ==
    /\ pc = "scraper_search"
    /\ \E n \in 0..MaxProducts, e \in 0..MaxProducts, pos \in 0..Len(index) :
        /\ n = 0 \/ e <= n
        /\ e = 0 => pos = 0
        /\ products' = n
        /\ index' = embed_products(index, e, pos)
        /\ IF n > 0
           THEN /\ queue' = Put(queue, StatusFound(n))
                /\ trace' = TracePut(Append(trace, Op("search", state.scraper_query)),
                                     StatusFound(n))
                /\ pc' = "scraper_requery"
           ELSE /\ trace' = Append(trace, Op("search", state.scraper_query))
                /\ pc' = Raise_pc
                /\ UNCHANGED queue
    /\ UNCHANGED <<route_vars, channel_vars, enc_vars, conc_vars, scr_vars, csr_vars, entry, args,
                   stream_callback, state, parsed_chunks, draft, critique, result>>

\* search_products_internal: n products come back (none when the scraper
\* failed, which it reports as an empty list), e new ones were embedded.
scraper_search ==
    /\ pc = "scraper_search"
    /\ \E n \in 0..MaxProducts, e \in 0..MaxProducts, pos \in 0..Len(index) :
        /\ n = 0 \/ e <= n
        /\ e = 0 => pos = 0
        /\ products' = n
        /\ index' = embed_products(index, e, pos)
        /\ IF n > 0
           THEN /\ queue' = Put(queue, StatusFound(n))
                /\ trace' = TracePut(Append(trace, Op("search", state.scraper_query)),
                                     StatusFound(n))
                /\ pc' = "scraper_requery"
           ELSE /\ trace' = Append(trace, Op("search", state.scraper_query))
                /\ pc' = Next_pc(route_scraper_tool(state))
                /\ UNCHANGED queue
    /\ UNCHANGED <<route_vars, channel_vars, enc_vars, conc_vars, scr_vars, csr_vars, entry, args, stream_callback, state, parsed_chunks, draft,
                   critique, result>>

scraper_requery ==
    /\ pc = "scraper_requery"
    /\ LET chunks == query_vector_store(index, N_RESULTS, None)
       IN  /\ \/ /\ trace' = trace \o <<Op("index_query", None),
                                      Op("index_result", Len(chunks))>>
                 /\ state' = [state EXCEPT !.retrieved_chunks = chunks,
                                           !.scraper_needed = FALSE]
                 /\ pc' = Next_pc(route_scraper_tool(state'))
              \/ /\ trace' = Append(trace, Op("index_query", None))
                 /\ pc' = Raise_pc
                 /\ UNCHANGED state
    /\ UNCHANGED <<route_vars, channel_vars, enc_vars, conc_vars, scr_vars, csr_vars, entry, args, stream_callback, index, parsed_chunks, products,
                   draft, critique, result, queue>>

\* ---- Node 3: parser_node ----
\* variant: the model's answer stored as the original text too
parsed_chunk_summary_as_text(chunk, content) ==
    [id |-> chunk.id, original_text |-> content, summary |-> content,
     metadata |-> chunk.metadata]

parsed_chunk(chunk, content) ==
    [id |-> chunk.id, original_text |-> chunk.document, summary |-> content,
     metadata |-> chunk.metadata]

\* variant: the state returned as it came in
parser_empty_result_same(s) == s

\* "if not state['retrieved_chunks']": {**state, "parsed_chunks": []}
parser_empty_result(s) == [s EXCEPT !.parsed_chunks = <<>>]

parser_entry ==
    /\ pc = "parser"
    /\ queue' = Put(queue, STATUS_PARSER)
    /\ trace' = TracePut(Append(trace, Op("node", "parser")), STATUS_PARSER)
    /\ IF state.retrieved_chunks = <<>>
       THEN /\ state' = parser_empty_result(state)
            /\ pc' = Next_pc(route_parser(state'))
            /\ UNCHANGED parsed_chunks
       ELSE /\ parsed_chunks' = <<>>
            /\ \/ pc' = "parser_llm"
               \/ pc' = Raise_pc       \* get_llm() raises
            /\ UNCHANGED state
    /\ UNCHANGED <<route_vars, channel_vars, enc_vars, conc_vars, scr_vars, csr_vars, entry, args, stream_callback, index, products, draft,
                   critique, result>>

\* one round of "for chunk in state['retrieved_chunks']"
parser_llm ==
    /\ pc = "parser_llm"
    /\ LET chunk == state.retrieved_chunks[Len(parsed_chunks) + 1]
       IN  /\ trace' = Append(trace, Op("llm", <<"parse", chunk.id>>))
           /\ \/ \E content \in Contents :
                    /\ parsed_chunks' = Append(parsed_chunks,
                                               parsed_chunk(chunk, content))
                    /\ IF Len(parsed_chunks') = Len(state.retrieved_chunks)
                       THEN /\ state' = [state EXCEPT
                                            !.parsed_chunks = parsed_chunks']
                            /\ pc' = Next_pc(route_parser(state'))
                       ELSE /\ pc' = "parser_llm"
                            /\ UNCHANGED state
              \/ /\ pc' = Raise_pc     \* llm.ainvoke raises
                 /\ UNCHANGED <<state, parsed_chunks>>
    /\ UNCHANGED <<route_vars, channel_vars, enc_vars, conc_vars, scr_vars, csr_vars, entry, args, stream_callback, index, products, draft,
                   critique, result, queue>>

\* ---- Node 4: creative_node ----
\* "context" built from the summaries of state["parsed_chunks"]
context_of(parsed) == [k \in 1..Len(parsed) |-> parsed[k].summary]

\* what each of the three prompts is made from
draft_messages(query, context) == <<"draft", query, context>>

critique_messages(query, context, draft_text) ==
    <<"critique", query, context, draft_text>>

\* variant: the refine prompt repeats the draft where the critique belongs
refine_messages_without_critique(query, context, draft_text, critique_text) ==
    <<"refine", query, context, draft_text, draft_text>>

refine_messages(query, context, draft_text, critique_text) ==
    <<"refine", query, context, draft_text, critique_text>>

\* variant: a fresh state around the answer
creative_result_fresh(s, refined_output) ==
    [AgentState(s.kb_type, s.query, s.document_id) EXCEPT
        !.creative_output = refined_output, !.final_answer = refined_output]

\* {**state, "creative_output": refined_output, "final_answer": refined_output}
creative_result(s, refined_output) ==
    [s EXCEPT !.creative_output = refined_output, !.final_answer = refined_output]

creative_entry ==
    /\ pc = "creative"
    /\ queue' = Put(queue, STATUS_CREATIVE)
    /\ trace' = TracePut(Append(trace, Op("node", "creative")), STATUS_CREATIVE)
    /\ \/ pc' = "draft_status"
       \/ pc' = Raise_pc               \* get_llm() raises
    /\ UNCHANGED <<route_vars, channel_vars, enc_vars, conc_vars, scr_vars, csr_vars, entry, args, stream_callback, index, state, parsed_chunks,
                   products, draft, critique, result>>

\* STEP 1: Generate initial draft
draft_status ==
    /\ pc = "draft_status"
    /\ queue' = Put(queue, STATUS_DRAFT)
    /\ trace' = TracePut(trace, STATUS_DRAFT)
    /\ pc' = "draft_llm"
    /\ UNCHANGED <<route_vars, channel_vars, enc_vars, conc_vars, scr_vars, csr_vars, entry, args, stream_callback, index, state, parsed_chunks,
                   products, draft, critique, result>>

draft_llm ==
    /\ pc = "draft_llm"
    /\ LET call == Op("llm", draft_messages(state.query,
                                            context_of(state.parsed_chunks)))
       IN  \/ \E content \in Contents :
                /\ trace' = trace \o <<call, Op("llm_result", <<"draft", content>>)>>
                /\ draft' = content
                /\ pc' = "critique_status"
           \/ /\ trace' = Append(trace, call)
              /\ pc' = Raise_pc
              /\ UNCHANGED draft
    /\ UNCHANGED <<route_vars, channel_vars, enc_vars, conc_vars, scr_vars, csr_vars, entry, args, stream_callback, index, state, parsed_chunks,
                   products, critique, result, queue>>

\* variant: an empty critique ends the loop, the draft being the answer
critique_llm_early_exit ==
    /\ pc = "critique_llm"
    /\ LET call == Op("llm", critique_messages(state.query,
                                context_of(state.parsed_chunks), draft))
       IN  \/ \E content \in Contents :
                /\ trace' = trace \o <<call, Op("llm_result", <<"critique", content>>)>>
                /\ critique' = content
                /\ IF content = ""
                   THEN /\ state' = [state EXCEPT !.creative_output = draft,
                                                  !.final_answer = draft]
                        /\ pc' = Next_pc(route_creative(state'))
                   ELSE /\ pc' = "refine_status"
                        /\ UNCHANGED state
           \/ /\ trace' = Append(trace, call)
              /\ pc' = Raise_pc
              /\ UNCHANGED <<critique, state>>
    /\ UNCHANGED <<route_vars, channel_vars, enc_vars, conc_vars, scr_vars, csr_vars, entry, args, stream_callback, index, parsed_chunks,
                   products, draft, result, queue>>

\* STEP 2: Self-critique the draft
critique_status ==
    /\ pc = "critique_status"
    /\ queue' = Put(queue, STATUS_CRITIQUE)
    /\ trace' = TracePut(trace, STATUS_CRITIQUE)
    /\ pc' = "critique_llm"
    /\ UNCHANGED <<route_vars, channel_vars, enc_vars, conc_vars, scr_vars, csr_vars, entry, args, stream_callback, index, state, parsed_chunks,
                   products, draft, critique, result>>

critique_llm ==
    /\ pc = "critique_llm"
    /\ LET call == Op("llm", critique_messages(state.query,
                                context_of(state.parsed_chunks), draft))
       IN  \/ \E content \in Contents :
                /\ trace' = trace \o <<call, Op("llm_result", <<"critique", content>>)>>
                /\ critique' = content
                /\ pc' = "refine_status"
           \/ /\ trace' = Append(trace, call)
              /\ pc' = Raise_pc
              /\ UNCHANGED critique
    /\ UNCHANGED <<route_vars, channel_vars, enc_vars, conc_vars, scr_vars, csr_vars, entry, args, stream_callback, index, state, parsed_chunks,
                   products, draft, result, queue>>

\* variant: the refine round announces nothing
refine_status_silent ==
    /\ pc = "refine_status"
    /\ pc' = "refine_llm"
    /\ UNCHANGED <<route_vars, channel_vars, enc_vars, conc_vars, scr_vars, csr_vars, entry, args, stream_callback, index, state, parsed_chunks,
                   products, draft, critique, result, queue, trace>>

\* STEP 3: Generate improved version
refine_status ==
    /\ pc = "refine_status"
    /\ queue' = Put(queue, STATUS_REFINE)
    /\ trace' = TracePut(trace, STATUS_REFINE)
    /\ pc' = "refine_llm"
    /\ UNCHANGED <<route_vars, channel_vars, enc_vars, conc_vars, scr_vars, csr_vars, entry, args, stream_callback, index, state, parsed_chunks,
                   products, draft, critique, result>>

refine_llm ==
    /\ pc = "refine_llm"
    /\ LET call == Op("llm", refine_messages(state.query,
                                context_of(state.parsed_chunks), draft, critique))
       IN  \/ \E refined_output \in Contents :
                /\ trace' = trace \o <<call, Op("llm_result",
                                                 <<"refine", refined_output>>)>>
                /\ state' = creative_result(state, refined_output)
                /\ pc' = Next_pc(route_creative(state'))
           \/ /\ trace' = Append(trace, call)
              /\ pc' = Raise_pc
              /\ UNCHANGED state
    /\ UNCHANGED <<route_vars, channel_vars, enc_vars, conc_vars, scr_vars, csr_vars, entry, args, stream_callback, index, parsed_chunks, products,
                   draft, critique, result, queue>>

\* ---- run_agent ----
\* the fallback answer: one of the canned texts or the f-string, never empty
mock_answer(kb_type, query) == "mock"

run_agent_invoke ==
    /\ pc = "start"
    /\ state' = AgentState(args.kb_type, args.query, args.document_id)
    /\ pc' = "retrieval"
    /\ UNCHANGED <<route_vars, channel_vars, enc_vars, conc_vars, scr_vars, csr_vars, entry, args, stream_callback, index, parsed_chunks, products,
                   draft, critique, result, queue, trace>>

\* the graph reached END: "return result"
run_agent_return ==
    /\ pc = END
    /\ trace' = Append(trace, Op("node", END))
    /\ result' = state
    /\ pc' = "done"
    /\ UNCHANGED <<route_vars, channel_vars, enc_vars, conc_vars, scr_vars, csr_vars, entry, args, stream_callback, index, state, parsed_chunks,
                   products, draft, critique, queue>>

\* variant: the mock answer put into the state the run had reached
run_agent_except_keep_state ==
    /\ pc = "except"
    /\ trace' = Append(trace, Op("except", None))
    /\ result' = [state EXCEPT
                    !.creative_output = mock_answer(args.kb_type, args.query),
                    !.final_answer = mock_answer(args.kb_type, args.query)]
    /\ pc' = "done"
    /\ UNCHANGED <<route_vars, channel_vars, enc_vars, conc_vars, scr_vars, csr_vars, entry, args, stream_callback, index,
                   state, parsed_chunks, products, draft, critique, queue>>

\* "except Exception": the mock response
run_agent_except ==
    /\ pc = "except"
    /\ trace' = Append(trace, Op("except", None))
    /\ result' = [kb_type |-> args.kb_type, query |-> args.query,
                  document_id |-> args.document_id,
                  retrieved_chunks |-> <<>>, parsed_chunks |-> <<>>,
                  creative_output |-> mock_answer(args.kb_type, args.query),
                  final_answer |-> mock_answer(args.kb_type, args.query),
                  scraper_needed |-> FALSE, scraper_query |-> None]
    /\ pc' = "done"
    /\ UNCHANGED <<route_vars, channel_vars, enc_vars, conc_vars, scr_vars, csr_vars, entry, args, stream_callback, index, state, parsed_chunks,
                   products, draft, critique, queue>>

\* ---- the query route: query_knowledge_base and its event_generator ----
agent_vars == <<entry, args, stream_callback, index, state, pc, parsed_chunks,
                products, draft, critique, result, queue, trace>>

\* variant: kb declared as a plain str
QueryRequest_valid_any(kb) == TRUE

\* kb: KnowledgeBaseType of QueryRequest, validated before the handler runs
QueryRequest_valid(kb) == kb \in KnowledgeBaseType

\* what event_generator yields: the frame, and the payload it was made from
Yielded(json, data, frame) == [json |-> json, data |-> data, frame |-> frame]
YieldText(data) == Yielded(FALSE, data, encode_sse_event(data, "message"))
YieldJson(data) == Yielded(TRUE, data, encode_sse_event_json(data, "message"))

STATUS_PROCESSING == Text("Processing query...")

\* the words of the route's own mock answer (answer.split()); the canned
\* texts are longer, five words are enough for two pieces
route_mock_words(kb, prompt) == <<"This", "is", "a", kb, "answer">>

\* variant: the newest message taken first
queue_get_last(q) == [item |-> q[Len(q)], rest |-> SubSeq(q, 1, Len(q) - 1)]

\* asyncio.Queue.get on a non-empty queue
queue_get(q) == [item |-> Head(q), rest |-> Tail(q)]

\* variant: the complete event without the chunks' metadata
final_event_no_sources(res) ==
    IF res # <<>> /\ "final_answer" \in DOMAIN res
    THEN [status |-> "complete", answer |-> res.final_answer, sources |-> <<>>]
    ELSE [status |-> "error", message |-> "No results found."]

\* variant: the sources listed last chunk first
final_event_sources_reversed(res) ==
    IF res # <<>> /\ "final_answer" \in DOMAIN res
    THEN [status |-> "complete", answer |-> res.final_answer,
          sources |-> [k \in 1..Len(res.retrieved_chunks) |->
                          res.retrieved_chunks[Len(res.retrieved_chunks) + 1 - k].metadata]]
    ELSE [status |-> "error", message |-> "No results found."]

\* the event that ends the stream once the task is done
final_event(res) ==
    IF res # <<>> /\ "final_answer" \in DOMAIN res
    THEN [status |-> "complete", answer |-> res.final_answer,
          sources |-> [k \in 1..Len(res.retrieved_chunks) |->
                          res.retrieved_chunks[k].metadata]]
    ELSE [status |-> "error", message |-> "No results found."]

validate_request ==
    /\ cpc = "request"
    /\ cpc' = IF QueryRequest_valid(request.kb) THEN "generator" ELSE "rejected"
    /\ UNCHANGED <<request, api_key, words_sent, sent, agent_vars, channel_vars, enc_vars, conc_vars, scr_vars, csr_vars>>

\* yield encode_sse_event("Processing query...")
eg_start ==
    /\ cpc = "generator"
    /\ sent' = Append(sent, YieldText(STATUS_PROCESSING))
    /\ cpc' = "started"
    /\ UNCHANGED <<request, api_key, words_sent, agent_vars, channel_vars, enc_vars, conc_vars, scr_vars, csr_vars>>

\* without an API key the mock answer is streamed; with one, the queue is
\* created and run_agent started as a task
eg_branch ==
    /\ cpc = "started"
    /\ IF ~api_key
       THEN /\ cpc' = "mock"
            /\ UNCHANGED agent_vars
       ELSE /\ cpc' = "loop"
            /\ args' = [kb_type |-> request.kb, query |-> request.prompt,
                        document_id |-> request.doc_id]
            /\ stream_callback' = TRUE
            /\ queue' = <<>>
            /\ pc' = "start"
            /\ UNCHANGED <<entry, index, state, parsed_chunks, products, draft,
                           critique, result, trace>>
    /\ UNCHANGED <<request, api_key, words_sent, sent, channel_vars, enc_vars, conc_vars, scr_vars, csr_vars>>

\* the mock branch: the words three at a time, then the complete event
eg_mock ==
    /\ cpc = "mock"
    /\ LET words == route_mock_words(request.kb, request.prompt)
       IN  IF words_sent < Len(words)
           THEN /\ sent' = Append(sent, YieldText(
                    << SubSeq(words, words_sent + 1,
                              Min(words_sent + MOCK_CHUNK, Len(words))) >>))
                /\ words_sent' = words_sent + MOCK_CHUNK
                /\ cpc' = "mock"
           ELSE /\ sent' = Append(sent, YieldJson(
                    [status |-> "complete", answer |-> words,
                     sources |-> << [source |-> "mock_data"] >>]))
                /\ cpc' = "closed"
                /\ UNCHANGED words_sent
    /\ UNCHANGED <<request, api_key, agent_vars, channel_vars, enc_vars, conc_vars, scr_vars, csr_vars>>

\* variant: the loop goes on after the final event
eg_loop_no_break ==
    /\ cpc = "loop"
    /\ IF pc = "done"
       THEN /\ sent' = Append(sent, YieldJson(final_event(result)))
            /\ cpc' = "get"
       ELSE /\ cpc' = "get"
            /\ UNCHANGED sent
    /\ UNCHANGED <<request, api_key, words_sent, agent_vars, channel_vars, enc_vars, conc_vars, scr_vars, csr_vars>>

\* "while True: if task.done(): ... break"
eg_loop ==
    /\ cpc = "loop"
    /\ IF pc = "done"
       THEN /\ sent' = Append(sent, YieldJson(final_event(result)))
            /\ cpc' = "closed"
       ELSE /\ cpc' = "get"
            /\ UNCHANGED sent
    /\ UNCHANGED <<request, api_key, words_sent, agent_vars, channel_vars, enc_vars, conc_vars, scr_vars, csr_vars>>

\* "message = await asyncio.wait_for(queue.get(), timeout=0.1)": the next
\* message is yielded, or the wait times out on an empty queue
eg_get ==
    /\ cpc = "get"
    /\ IF queue # <<>>
       THEN /\ sent' = Append(sent, YieldText(queue_get(queue).item))
            /\ queue' = queue_get(queue).rest
       ELSE UNCHANGED <<sent, queue>>
    /\ cpc' = "loop"
    /\ UNCHANGED <<request, api_key, words_sent, entry, args, stream_callback,
                   index, state, pc, parsed_chunks, products, draft, critique,
                   result, trace, channel_vars, enc_vars, conc_vars, scr_vars, csr_vars>>

\* variant: the task is cancelled with the generator
client_disconnect_cancels_task ==
    /\ cpc \in {"generator", "started", "mock", "loop", "get"}
    /\ cpc' = "cancelled"
    /\ pc' = IF pc \in {"idle", "done"} THEN pc ELSE "cancelled"
    /\ UNCHANGED <<request, api_key, words_sent, sent, entry, args,
                   stream_callback, index, state, parsed_chunks, products, draft,
                   critique, result, queue, trace, channel_vars, enc_vars,
                   conc_vars, scr_vars, csr_vars>>

\* the client goes away while event_generator is suspended: the generator is
\* cancelled, and neither "except Exception" clause sees it
client_disconnect ==
    /\ cpc \in {"generator", "started", "mock", "loop", "get"}
    /\ cpc' = "cancelled"
    /\ UNCHANGED <<request, api_key, words_sent, sent, agent_vars, channel_vars, enc_vars, conc_vars, scr_vars, csr_vars>>

\* ---- SSEGenerator and SSEManager (sse.py) ----
Data == {"a", "b"}

\* a call as g_calls records it: what it was given, whether the generator was
\* closed and whether iterator() was suspended in get() on an empty queue
Call(op, arg) ==
    [op |-> op, arg |-> arg, closed |-> g_closed,
     waiting |-> (ipc = "get" /\ g_queue = <<>>)]

PutCalls == SelectSeq(g_calls, LAMBDA c : c.op = "put")
CloseCalls == SelectSeq(g_calls, LAMBDA c : c.op = "close")

\* variant: put() without the test of _closed
put_unguarded(data) ==
    /\ g_queue' = Append(g_queue, data)
    /\ g_calls' = Append(g_calls, Call("put", data))
    /\ UNCHANGED g_closed

\* SSEGenerator.put: "if not self._closed: await self._queue.put(data)"; the
\* queue is unbounded, so the put does not suspend
put(data) ==
    /\ g_queue' = IF ~g_closed THEN Append(g_queue, data) ELSE g_queue
    /\ g_calls' = Append(g_calls, Call("put", data))
    /\ UNCHANGED g_closed

\* variant: close() without the end signal
close_no_sentinel ==
    /\ g_closed' = TRUE
    /\ g_calls' = Append(g_calls, Call("close", None))
    /\ UNCHANGED g_queue

\* SSEGenerator.close: "self._closed = True; await self._queue.put(None)"
close ==
    /\ g_closed' = TRUE
    /\ g_queue' = Append(g_queue, None)
    /\ g_calls' = Append(g_calls, Call("close", None))

\* a holder of the generator calls put() on it
gen_put(data) ==
    /\ Len(PutCalls) < MaxPuts
    /\ put(data)
    /\ UNCHANGED <<ipc, g_yielded, g_registered, agent_vars, route_vars, enc_vars, conc_vars, scr_vars, csr_vars>>

\* a holder of the generator calls close() on it
gen_close ==
    /\ Len(CloseCalls) < MaxCloses
    /\ close
    /\ UNCHANGED <<ipc, g_yielded, g_registered, agent_vars, route_vars, enc_vars, conc_vars, scr_vars, csr_vars>>

\* SSEManager.send_event
send_event(data) ==
    /\ Len(PutCalls) < MaxPuts
    /\ IF g_registered
       THEN put(data)
       ELSE UNCHANGED <<g_queue, g_closed, g_calls>>
    /\ UNCHANGED <<ipc, g_yielded, g_registered, agent_vars, route_vars, enc_vars, conc_vars, scr_vars, csr_vars>>

\* variant: the generator is closed and its entry kept
close_connection_keeps_entry ==
    /\ Len(CloseCalls) < MaxCloses
    /\ IF g_registered
       THEN close
       ELSE UNCHANGED <<g_queue, g_closed, g_calls>>
    /\ UNCHANGED <<ipc, g_yielded, g_registered, agent_vars, route_vars, enc_vars,
                   conc_vars, scr_vars, csr_vars>>

\* SSEManager.close_connection
close_connection ==
    /\ Len(CloseCalls) < MaxCloses
    /\ IF g_registered
       THEN /\ close
            /\ g_registered' = FALSE
       ELSE UNCHANGED <<g_queue, g_closed, g_calls, g_registered>>
    /\ UNCHANGED <<ipc, g_yielded, agent_vars, route_vars, enc_vars, conc_vars, scr_vars, csr_vars>>

\* the response starts to iterate generator.iterator()
it_start ==
    /\ ipc = "none"
    /\ ipc' = "test"
    /\ UNCHANGED <<g_queue, g_closed, g_yielded, g_calls, g_registered,
                   agent_vars, route_vars, enc_vars, conc_vars, scr_vars, csr_vars>>

\* "while not self._closed:"
it_test ==
    /\ ipc = "test"
    /\ ipc' = IF g_closed THEN "ended" ELSE "get"
    /\ UNCHANGED <<g_queue, g_closed, g_yielded, g_calls, g_registered,
                   agent_vars, route_vars, enc_vars, conc_vars, scr_vars, csr_vars>>

\* "data = await self._queue.get(); if data is None: break; yield data"
it_get ==
    /\ ipc = "get"
    /\ g_queue # <<>>
    /\ g_queue' = Tail(g_queue)
    /\ IF Head(g_queue) = None
       THEN /\ ipc' = "ended"
            /\ UNCHANGED g_yielded
       ELSE /\ ipc' = "test"
            /\ g_yielded' = Append(g_yielded, Head(g_queue))
    /\ UNCHANGED <<g_closed, g_calls, g_registered, agent_vars, route_vars, enc_vars, conc_vars, scr_vars, csr_vars>>

\* ---- specifications ----
NoResult == [final_answer |-> "pending"]

\* a call of run_agent(query, kb_type, document_id, stream_callback)
Init ==
    /\ entry = "run_agent"
    /\ NoRoute
    /\ NoChannel
    /\ NoEncode
    /\ NoRequests
    /\ NoScraper
    /\ NoStreaming
    /\ args \in [kb_type : KbInputs, query : {"q"}, document_id : DocumentIds]
    /\ stream_callback \in BOOLEAN
    /\ index \in InitialIndexes
    /\ state = AgentState(args.kb_type, args.query, args.document_id)
    /\ pc = "start"
    /\ parsed_chunks = <<>>
    /\ products = 0
    /\ draft = None
    /\ critique = None
    /\ result = NoResult
    /\ queue = <<>>
    /\ trace = <<>>

Next ==
    \/ run_agent_invoke
    \/ retrieval_status
    \/ retrieval_query
    \/ scraper_tool_entry
    \/ scraper_search
    \/ scraper_requery
    \/ parser_entry
    \/ parser_llm
    \/ creative_entry
    \/ draft_status
    \/ draft_llm
    \/ critique_status
    \/ critique_llm
    \/ refine_status
    \/ refine_llm
    \/ run_agent_return
    \/ run_agent_except

Spec == Init /\ [][Next]_vars

\* a direct call of parser_node(state, stream_callback), as the unit tests make
InitParser ==
    /\ entry = "parser_node"
    /\ NoRoute
    /\ NoChannel
    /\ NoEncode
    /\ NoRequests
    /\ NoScraper
    /\ NoStreaming
    /\ args \in [kb_type : KbInputs, query : {"q"}, document_id : {None}]
    /\ stream_callback \in BOOLEAN
    /\ index = <<>>
    /\ state \in { [AgentState(args.kb_type, args.query, args.document_id)
                      EXCEPT !.retrieved_chunks = chunks,
                             !.parsed_chunks = earlier] :
                   chunks \in InitialIndexes,
                   earlier \in {<<>>, <<parsed_chunk(Chunk(1, "d1"), "txt")>>} }
    /\ pc = "parser"
    /\ parsed_chunks = <<>>
    /\ products = 0
    /\ draft = None
    /\ critique = None
    /\ result = NoResult
    /\ queue = <<>>
    /\ trace = <<>>

NextParser ==
    \/ parser_entry
    \/ parser_llm

SpecParser == InitParser /\ [][NextParser]_vars

\* the collections requests are served on: every chunk from document "d1"
RouteIndexes ==
    { idx \in Indexes(MaxRouteIndex) :
        \A k \in 1..Len(idx) : idx[k].metadata.document_id = "d1" }

\* a request to the query route
InitRoute ==
    /\ entry = "run_agent"
    /\ request \in [kb : KbInputs, prompt : {"q"}, doc_id : DocumentIds]
    /\ api_key \in BOOLEAN
    /\ cpc = "request"
    /\ words_sent = 0
    /\ sent = <<>>
    /\ NoChannel
    /\ NoEncode
    /\ NoRequests
    /\ NoScraper
    /\ NoStreaming
    /\ args = [kb_type |-> None, query |-> None, document_id |-> None]
    /\ stream_callback = FALSE
    /\ index \in RouteIndexes
    /\ state = AgentState(None, None, None)
    /\ pc = "idle"
    /\ parsed_chunks = <<>>
    /\ products = 0
    /\ draft = None
    /\ critique = None
    /\ result = NoResult
    /\ queue = <<>>
    /\ trace = <<>>

NextRoute ==
    \/ validate_request
    \/ eg_start
    \/ eg_branch
    \/ eg_mock
    \/ eg_loop
    \/ eg_get
    \/ client_disconnect
    \/ Next

SpecRoute == InitRoute /\ [][NextRoute]_vars

\* SSEManager.create_generator has made and registered one generator
InitChannel ==
    /\ entry = "channel"
    /\ NoRoute
    /\ NoEncode
    /\ NoRequests
    /\ NoScraper
    /\ NoStreaming
    /\ g_queue = <<>>
    /\ g_closed = FALSE
    /\ ipc = "none"
    /\ g_yielded = <<>>
    /\ g_calls = <<>>
    /\ g_registered = TRUE
    /\ args = [kb_type |-> None, query |-> None, document_id |-> None]
    /\ stream_callback = FALSE
    /\ index = <<>>
    /\ state = AgentState(None, None, None)
    /\ pc = "idle"
    /\ parsed_chunks = <<>>
    /\ products = 0
    /\ draft = None
    /\ critique = None
    /\ result = NoResult
    /\ queue = <<>>
    /\ trace = <<>>

NextChannel ==
    \/ \E data \in Data : gen_put(data)
    \/ \E data \in Data : send_event(data)
    \/ gen_close
    \/ close_connection
    \/ it_start
    \/ it_test
    \/ it_get

SpecChannel == InitChannel /\ [][NextChannel]_vars

\* a generator used through the manager only, as compare_resumes does
NextManager ==
    \/ \E data \in Data : send_event(data)
    \/ close_connection
    \/ it_start
    \/ it_test
    \/ it_get

SpecManager == InitChannel /\ [][NextManager]_vars

\* the event loop keeps running the consumer of iterator()
SpecChannelFair ==
    /\ SpecChannel
    /\ WF_vars(it_test)
    /\ WF_vars(it_get)

\* every external call returns or raises, the event loop keeps running the task
\* and the generator, and the request is validated
SpecRouteFair ==
    /\ SpecRoute
    /\ WF_vars(Next)
    /\ WF_vars(validate_request \/ eg_start \/ eg_branch \/ eg_mock \/ eg_loop
               \/ eg_get)

\* ---- encode_sse_event, character by character (sse.py) ----
\* Here a str is the sequence of its pieces: single characters, NL among
\* them, and the literals of the f-strings, which hold no newline.
NL == "\n"
Chars == {"a", "b", NL}
Strs(n) == UNION { [1..k -> Chars] : k \in 0..n }
EventTypes == {"message", "error"}

\* the data argument: a str, or a dict with one str value
StrData(chars) == [is_str |-> TRUE, value |-> chars]
DictData(chars) == [is_str |-> FALSE, value |-> chars]
Payloads ==
    { StrData(c) : c \in Strs(MaxText) } \cup { DictData(c) : c \in Strs(1) }

\* str.split("\n")
RECURSIVE split(_)
split(s) ==
    IF s = <<>> THEN << <<>> >>
    ELSE LET rest == split(Tail(s))
         IN  IF Head(s) = NL
             THEN << <<>> >> \o rest
             ELSE << <<Head(s)>> \o Head(rest) >> \o Tail(rest)

\* "\n".join(lines)
RECURSIVE join(_)
join(lines) ==
    IF Len(lines) = 1 THEN Head(lines)
    ELSE Head(lines) \o <<NL>> \o join(Tail(lines))

\* json.dumps of the dict: one line, a newline in the value written as \n
json_dumps(chars) ==
    <<"{\"message\": \"">>
    \o [k \in 1..Len(chars) |-> IF chars[k] = NL THEN "\\n" ELSE chars[k]]
    \o <<"\"}">>

\* variant: the text written after one "data: ", unsplit
data_lines_unsplit(lines) == <<"data: ">> \o join(lines) \o <<NL>>

\* for line in data.split("\n"): message += f"data: {line}\n"
RECURSIVE data_lines(_)
data_lines(lines) ==
    IF lines = <<>> THEN <<>>
    ELSE <<"data: ">> \o Head(lines) \o <<NL>> \o data_lines(Tail(lines))

\* the str encode_sse_event returns
encode_sse_event_chars(data, event_type) ==
    <<"event: ", event_type, NL>>
    \o (IF data.is_str
        THEN data_lines(split(data.value))
        ELSE <<"data: ">> \o json_dumps(data.value) \o <<NL>>)
    \o <<NL>>

encode_call ==
    /\ enc_out = None
    /\ enc_out' = encode_sse_event_chars(enc_data, enc_type)
    /\ UNCHANGED <<enc_data, enc_type, agent_vars, route_vars, channel_vars,
                   conc_vars, scr_vars, csr_vars>>

\* no run of the agent is under way
NoAgent ==
    /\ args = [kb_type |-> None, query |-> None, document_id |-> None]
    /\ stream_callback = FALSE
    /\ index = <<>>
    /\ state = AgentState(None, None, None)
    /\ pc = "idle"
    /\ parsed_chunks = <<>>
    /\ products = 0
    /\ draft = None
    /\ critique = None
    /\ result = [final_answer |-> "pending"]
    /\ queue = <<>>
    /\ trace = <<>>

\* a call encode_sse_event(data, event_type)
InitEncode ==
    /\ entry = "encode_sse_event"
    /\ enc_data \in Payloads
    /\ enc_type \in EventTypes
    /\ enc_out = None
    /\ NoAgent
    /\ NoRoute
    /\ NoChannel
    /\ NoRequests
    /\ NoScraper
    /\ NoStreaming

NextEncode == encode_call

SpecEncode == InitEncode /\ [][NextEncode]_vars

\* ---- two requests served at the same time (query.py, langgraph_agent.py) ----
\* Each call of event_generator has its own queue and its own task; each call
\* of run_agent builds its own graph around the callback it was given and its
\* own initial_state.  A node is one step here.
ConcRequests == {1, 2}
ConcKbs == {RESUMES, RECIPES}

Req(kb, prompt) ==
    [kb |-> kb, prompt |-> prompt,
     gpc |-> "start",       \* position of the request's event_generator
     tpc |-> "none",        \* position of its task
     cb |-> 0,              \* the request whose queue its callback puts on
     state |-> AgentState(None, None, None),
     queue |-> <<>>, sent |-> <<>>, result |-> [final_answer |-> "pending"]]

\* an item of a queue or of a stream, with the task that enqueued it (0 for
\* what event_generator yields of its own)
Item(frame, by) == [frame |-> frame, by |-> by]

\* variant: one queue at module level, the first request's
callback_queue_shared(r) == 1

\* "stream_callback=lambda event: queue.put(event)": the queue is the local
\* of the event_generator call that made the lambda
callback_queue(r) == r

\* await stream_callback(encode_sse_event(text)) in a node of request r's task
Enqueue(rs, r, text) ==
    [rs EXCEPT ![rs[r].cb].queue =
        Append(@, Item(encode_sse_event(text, "message"), r))]

RECURSIVE EnqueueAll(_, _, _)
EnqueueAll(rs, r, texts) ==
    IF texts = <<>> THEN rs
    ELSE EnqueueAll(Enqueue(rs, r, Head(texts)), r, Tail(texts))

\* the model's answer, which depends on the query it was asked
answer_to(query) == "answer to " \o query

other_vars == <<agent_vars, route_vars, channel_vars, enc_vars, scr_vars, csr_vars>>

c_start(r) ==
    /\ reqs[r].gpc = "start"
    /\ reqs' = [reqs EXCEPT
            ![r].sent = Append(@, Item(encode_sse_event(STATUS_PROCESSING, "message"), 0)),
            ![r].cb = callback_queue(r),
            ![r].state = AgentState(reqs[r].kb, reqs[r].prompt, None),
            ![r].tpc = "retrieval",
            ![r].gpc = "loop"]
    /\ UNCHANGED other_vars

c_retrieval(r) ==
    /\ reqs[r].tpc = "retrieval"
    /\ \E chunks \in {<<>>, <<Chunk(1, "d1")>>} :
        LET st == [reqs[r].state EXCEPT
                      !.retrieved_chunks = chunks,
                      !.scraper_needed =
                          scraper_needed_of(reqs[r].state.kb_type, chunks),
                      !.scraper_query = None]
        IN  reqs' = [Enqueue(reqs, r, STATUS_RETRIEVAL) EXCEPT
                        ![r].state = st,
                        ![r].tpc = route_retrieval(st)]
    /\ UNCHANGED other_vars

c_parser(r) ==
    /\ reqs[r].tpc = "parser"
    /\ LET st == [reqs[r].state EXCEPT
                     !.parsed_chunks =
                        [k \in 1..Len(reqs[r].state.retrieved_chunks) |->
                            parsed_chunk(reqs[r].state.retrieved_chunks[k], "txt")]]
       IN  reqs' = [Enqueue(reqs, r, STATUS_PARSER) EXCEPT
                       ![r].state = st,
                       ![r].tpc = route_parser(st)]
    /\ UNCHANGED other_vars

c_creative(r) ==
    /\ reqs[r].tpc = "creative"
    /\ LET st == [reqs[r].state EXCEPT
                     !.creative_output = answer_to(reqs[r].state.query),
                     !.final_answer = answer_to(reqs[r].state.query)]
       IN  reqs' = [EnqueueAll(reqs, r, <<STATUS_CREATIVE, STATUS_DRAFT,
                                          STATUS_CRITIQUE, STATUS_REFINE>>) EXCEPT
                       ![r].state = st,
                       ![r].tpc = route_creative(st)]
    /\ UNCHANGED other_vars

c_return(r) ==
    /\ reqs[r].tpc = END
    /\ reqs' = [reqs EXCEPT ![r].result = reqs[r].state, ![r].tpc = "done"]
    /\ UNCHANGED other_vars

c_get(r) ==
    /\ reqs[r].gpc = "loop"
    /\ reqs[r].tpc # "done"
    /\ reqs[r].queue # <<>>
    /\ reqs' = [reqs EXCEPT
            ![r].sent = Append(@, queue_get(reqs[r].queue).item),
            ![r].queue = queue_get(reqs[r].queue).rest]
    /\ UNCHANGED other_vars

c_final(r) ==
    /\ reqs[r].gpc = "loop"
    /\ reqs[r].tpc = "done"
    /\ reqs' = [reqs EXCEPT
            ![r].sent = Append(@, Item(final_event(reqs[r].result), 0)),
            ![r].gpc = "closed"]
    /\ UNCHANGED other_vars

InitConc ==
    /\ entry = "query_knowledge_base"
    /\ NoAgent
    /\ NoRoute
    /\ NoChannel
    /\ NoEncode
    /\ NoScraper
    /\ NoStreaming
    /\ reqs \in { [r \in ConcRequests |-> Req(kbs[r], "q" \o ToString(r))] :
                  kbs \in [ConcRequests -> ConcKbs] }

NextConc ==
    \E r \in ConcRequests :
        \/ c_start(r)
        \/ c_retrieval(r)
        \/ c_parser(r)
        \/ c_creative(r)
        \/ c_return(r)
        \/ c_get(r)
        \/ c_final(r)

SpecConc == InitConc /\ [][NextConc]_vars

\* ---- the scraper's browser session (scraper.py, playwright_tools.py) ----
rest_of_model == <<agent_vars, route_vars, channel_vars, enc_vars, conc_vars>>

\* search_products_internal(query) is called
sp_call ==
    /\ spc \in {"none", "returned", "cancelled"}
    /\ searches < MaxScraperCalls
    /\ searches' = searches + 1
    /\ found' = 0
    /\ spc' = "start"
    /\ UNCHANGED <<launched, closed, csr_vars, rest_of_model>>

\* __aenter__: "playwright = await async_playwright().start()"
aenter_start ==
    /\ spc = "start"
    /\ \/ spc' = "launch"
       \/ spc' = "except"          \* the driver does not start
    /\ UNCHANGED <<launched, closed, searches, found, csr_vars, rest_of_model>>

\* __aenter__: "self.browser = await playwright.chromium.launch(...)"
aenter_launch ==
    /\ spc = "launch"
    /\ \/ /\ launched' = launched + 1
          /\ spc' = "new_context"
       \/ /\ spc' = "except"       \* the launch fails: self.browser stays None
          /\ UNCHANGED launched
    /\ UNCHANGED <<closed, searches, found, csr_vars, rest_of_model>>

\* __aenter__: "self.context = await self.browser.new_context(...)"; when it
\* raises, __aenter__ has not returned and "async with" does not call __aexit__
aenter_new_context ==
    /\ spc = "new_context"
    /\ \/ spc' = "body"
       \/ spc' = "except"
    /\ UNCHANGED <<launched, closed, searches, found, csr_vars, rest_of_model>>

\* "products = await scraper.search_products(query)": search_products catches
\* its own exceptions and returns [] then
sp_search_products ==
    /\ spc = "body"
    /\ \E n \in 0..MaxProducts : found' = n
    /\ spc' = "aexit"
    /\ UNCHANGED <<launched, closed, searches, csr_vars, rest_of_model>>

\* __aexit__: "if self.browser: await self.browser.close()", on the way out of
\* the "async with" body, with the products or with the cancellation
aexit ==
    /\ spc \in {"aexit", "aexit_cancelled"}
    /\ closed' = closed + 1
    /\ spc' = IF spc = "aexit" THEN "returned" ELSE "cancelled"
    /\ UNCHANGED <<launched, searches, found, csr_vars, rest_of_model>>

\* "except Exception as e: ... return []"
sp_except ==
    /\ spc = "except"
    /\ found' = 0
    /\ spc' = "returned"
    /\ UNCHANGED <<launched, closed, searches, csr_vars, rest_of_model>>

\* the caller's task is cancelled while the call is suspended: inside
\* __aenter__ the CancelledError leaves the function at once ("except
\* Exception" does not catch it), inside the body it passes through __aexit__
sp_cancel ==
    /\ spc \in {"start", "launch", "new_context", "body"}
    /\ spc' = IF spc = "body" THEN "aexit_cancelled" ELSE "cancelled"
    /\ UNCHANGED <<launched, closed, searches, found, csr_vars, rest_of_model>>

InitScraper ==
    /\ entry = "search_products_internal"
    /\ NoAgent
    /\ NoRoute
    /\ NoChannel
    /\ NoEncode
    /\ NoRequests
    /\ NoStreaming
    /\ NoScraper

NextScraper ==
    \/ sp_call
    \/ aenter_start
    \/ aenter_launch
    \/ aenter_new_context
    \/ sp_search_products
    \/ aexit
    \/ sp_except
    \/ sp_cancel

SpecScraper == InitScraper /\ [][NextScraper]_vars

\* ---- create_streaming_response (sse.py) ----
scraper_and_model == <<scr_vars, rest_of_model>>

Tokens == {Text("a"), Text("b")}

\* str(task.exception())
EXC_TEXT == "callback failed"

STREAM_ERROR == [status |-> "error", message |-> EXC_TEXT]
STREAM_COMPLETE == [status |-> "complete"]

\* "queue = asyncio.Queue(); task = asyncio.create_task(callback(sse_callback))"
\* and the response starts to iterate stream_generator()
csr_create ==
    /\ s_pc = "none"
    /\ s_task' = "running"
    /\ s_pc' = "loop"
    /\ UNCHANGED <<s_queue, s_sent, s_tokens, scraper_and_model>>

\* SSECallback.on_llm_new_token: "await self.queue.put(token)"
on_llm_new_token(token) ==
    /\ s_task = "running"
    /\ Len(s_tokens) < MaxTokens
    /\ s_queue' = Append(s_queue, token)
    /\ s_tokens' = Append(s_tokens, token)
    /\ UNCHANGED <<s_task, s_pc, s_sent, scraper_and_model>>

\* the callback returns
callback_return ==
    /\ s_task = "running"
    /\ s_task' = "finished"
    /\ UNCHANGED <<s_queue, s_pc, s_sent, s_tokens, scraper_and_model>>

\* the callback raises
callback_raise ==
    /\ s_task = "running"
    /\ s_task' = "raised"
    /\ UNCHANGED <<s_queue, s_pc, s_sent, s_tokens, scraper_and_model>>

\* "while True: if task.done(): if task.exception(): yield <error>"
sg_loop ==
    /\ s_pc = "loop"
    /\ IF s_task = "raised"
       THEN /\ s_sent' = Append(s_sent, Yielded(TRUE, STREAM_ERROR,
                                   encode_sse_event_json(STREAM_ERROR, "error")))
            /\ s_pc' = "complete"
       ELSE /\ s_pc' = IF s_task = "finished" THEN "complete" ELSE "get"
            /\ UNCHANGED s_sent
    /\ UNCHANGED <<s_queue, s_task, s_tokens, scraper_and_model>>

\* "yield encode_sse_event({"status": "complete"}, "complete"); break"
sg_complete ==
    /\ s_pc = "complete"
    /\ s_sent' = Append(s_sent, Yielded(TRUE, STREAM_COMPLETE,
                           encode_sse_event_json(STREAM_COMPLETE, "complete")))
    /\ s_pc' = "closed"
    /\ UNCHANGED <<s_queue, s_task, s_tokens, scraper_and_model>>

\* "token = await asyncio.wait_for(queue.get(), timeout=0.1); yield
\* encode_sse_event(token)", or the timeout and "continue"
sg_get ==
    /\ s_pc = "get"
    /\ IF s_queue # <<>>
       THEN /\ s_sent' = Append(s_sent, YieldText(queue_get(s_queue).item))
            /\ s_queue' = queue_get(s_queue).rest
       ELSE UNCHANGED <<s_sent, s_queue>>
    /\ s_pc' = "loop"
    /\ UNCHANGED <<s_task, s_tokens, scraper_and_model>>

\* "except asyncio.CancelledError: if not task.done(): task.cancel(); raise"
sg_cancelled ==
    /\ s_pc \in {"loop", "get", "complete"}
    /\ s_task' = IF s_task = "running" THEN "cancelled" ELSE s_task
    /\ s_pc' = "cancelled"
    /\ UNCHANGED <<s_queue, s_sent, s_tokens, scraper_and_model>>

InitStreaming ==
    /\ entry = "create_streaming_response"
    /\ NoAgent
    /\ NoRoute
    /\ NoChannel
    /\ NoEncode
    /\ NoRequests
    /\ NoScraper
    /\ NoStreaming

NextStreaming ==
    \/ csr_create
    \/ \E token \in Tokens : on_llm_new_token(token)
    \/ callback_return
    \/ callback_raise
    \/ sg_loop
    \/ sg_complete
    \/ sg_get
    \/ sg_cancelled

SpecStreaming == InitStreaming /\ [][NextStreaming]_vars

\* ---- reading the trace ----
Nodes == SelectSeq(trace, LAMBDA r : r.op = "node")
Searches == SelectSeq(trace, LAMBDA r : r.op = "search")
IndexResults == SelectSeq(trace, LAMBDA r : r.op = "index_result")
LlmCalls == SelectSeq(trace, LAMBDA r : r.op = "llm")
Excepted == \E k \in 1..Len(trace) : trace[k].op = "except"

NodeNames == [k \in 1..Len(Nodes) |-> Nodes[k].arg]
Entered(node) == \E k \in 1..Len(Nodes) : Nodes[k].arg = node

Rank(node) ==
    CASE node = "retrieval" -> 1
      [] node = "scraper_tool" -> 2
      [] node = "parser" -> 3
      [] node = "creative" -> 4
      [] node = END -> 5

\* retrieval has returned n chunks
RetrievalReturned(n) == IndexResults # <<>> /\ IndexResults[1].arg = n

\* C1: the steps of a run execute in the order Retrieval, Augmentation,
\* Summarization, Synthesis, Terminal: Retrieval is the first one, none is
\* executed twice and none is executed after one that follows it.
C1_StepOrder ==
    /\ pc \notin {"start", "retrieval"} => Nodes # <<>>
    /\ Nodes # <<>> => Nodes[1].arg = "retrieval"
    /\ \A j, k \in 1..Len(Nodes) : j < k => Rank(Nodes[j].arg) < Rank(Nodes[k].arg)

C1_Witness ==
    /\ pc = "done"
    /\ NodeNames = <<"retrieval", "scraper_tool", "parser", "creative", END>>
    /\ products = 0

\* C2: when the Retrieval step completes, scraper_needed is true exactly when
\* the knowledge base is "supplements" and the index returned 0 or 1 chunk.
C2_ScraperNeededIff ==
    [][ (pc = "retrieval_query" /\ pc' \notin {"retrieval_query", "except"})
        => /\ state'.retrieved_chunks
                = query_vector_store(index, 5, filter_dict_of(args.document_id))
           /\ state'.scraper_needed
                <=> (args.kb_type = "supplements"
                     /\ Len(state'.retrieved_chunks) \in {0, 1}) ]_vars

C2_Witness ==
    /\ pc = "scraper_tool"
    /\ state.scraper_needed
    /\ Len(state.retrieved_chunks) = 1
    /\ Len(index) > 1

\* C3: in a run on a non-product knowledge base where retrieval returned 2 or
\* more chunks, the augmentation step is never entered, the external search is
\* never called and scraper_needed is false.
C3_NoAugmentation ==
    (args.kb_type # "supplements"
     /\ \E n \in 2..N_RESULTS : RetrievalReturned(n))
    => /\ ~Entered("scraper_tool")
       /\ Searches = <<>>
       /\ ~state.scraper_needed
       /\ pc \notin {"scraper_tool", "scraper_search", "scraper_requery"}

C3_Witness ==
    /\ pc = "done"
    /\ args.kb_type = "resumes"
    /\ RetrievalReturned(3)
    /\ ~Excepted

\* C4: in a run on "supplements" where retrieval returned 0 or 1 chunk, the
\* augmentation step is entered exactly once and makes one external search,
\* whatever the search returns; no run enters it or searches twice.
C4_AugmentationOnce ==
    LET entries == Len(SelectSeq(Nodes, LAMBDA r : r.arg = "scraper_tool"))
    IN  /\ entries <= 1
        /\ Len(Searches) <= 1
        /\ (args.kb_type = "supplements"
            /\ (RetrievalReturned(0) \/ RetrievalReturned(1)))
           => /\ entries = (IF pc = "scraper_tool" THEN 0 ELSE 1)
              /\ Len(Searches) = (IF pc \in {"scraper_tool", "scraper_search"}
                                  THEN 0 ELSE 1)

C4_Witness ==
    /\ pc = "done"
    /\ args.kb_type = "supplements"
    /\ RetrievalReturned(1)
    /\ products = 0
    /\ state.scraper_needed
    /\ Len(Searches) = 1

\* C5: when retrieval returns 0 chunks and the augmentation step, if it runs,
\* finds nothing, the run still executes Synthesis with no summaries and ends
\* with an answer that is not the error fallback.
C5_EmptyContextAnswered ==
    (pc = "done" /\ RetrievalReturned(0) /\ products = 0)
    => /\ Entered("creative")
       /\ result.parsed_chunks = <<>>
       /\ result.final_answer # None
       /\ ~Excepted

\* C6: a run that has reached Terminal carries a non-null final answer or has
\* reported an error.
C6_TerminalAnswerOrError ==
    pc = "done" => (result.final_answer # None \/ Excepted)

\* C7: called on a non-empty list of chunks with every model call succeeding,
\* the Summarization step returns one summary per chunk, the k-th one carrying
\* the id, text and metadata of the k-th chunk, and has called the model once
\* per chunk, in the chunks' order.
C7_OneSummaryPerChunk ==
    (pc = "returned" /\ state.retrieved_chunks # <<>>)
    => LET chunks == state.retrieved_chunks
           summaries == state.parsed_chunks
       IN  /\ Len(summaries) = Len(chunks)
           /\ \A k \in 1..Len(chunks) :
                /\ summaries[k].id = chunks[k].id
                /\ summaries[k].original_text = chunks[k].document
                /\ summaries[k].metadata = chunks[k].metadata
                /\ summaries[k].summary \in Contents
           /\ Len(LlmCalls) = Len(chunks)
           /\ \A k \in 1..Len(LlmCalls) :
                LlmCalls[k].arg = <<"parse", chunks[k].id>>

C7_Witness ==
    /\ pc = "returned"
    /\ Len(state.retrieved_chunks) = 3
    /\ state.retrieved_chunks[1].metadata # state.retrieved_chunks[2].metadata
    /\ state.parsed_chunks[1].summary # state.parsed_chunks[2].summary
    /\ Len(LlmCalls) = 3

\* C8: called on an empty list of chunks, the Summarization step returns an
\* empty list of summaries, has not called the model, and leaves kb_type and
\* query as they were passed.
C8_EmptyShortCircuit ==
    (pc \in {"returned", "raised"} /\ state.retrieved_chunks = <<>>)
    => /\ pc = "returned"
       /\ state.parsed_chunks = <<>>
       /\ LlmCalls = <<>>
       /\ state.kb_type = args.kb_type
       /\ state.query = args.query

C8_Witness ==
    /\ pc = "returned"
    /\ state.retrieved_chunks = <<>>
    /\ state.parsed_chunks = <<>>
    /\ \E k \in 1..Len(trace) : trace[k].op = "put"

\* C9: once the Synthesis step has run to completion it has made exactly the
\* three model calls draft, critique, refine, in that order, whatever the
\* critique was.
SynthesisCalls ==
    SelectSeq(LlmCalls, LAMBDA r : r.arg[1] \in {"draft", "critique", "refine"})

SynthesisCompleted ==
    Entered("creative") /\ (pc = END \/ (pc = "done" /\ ~Excepted))

C9_ThreeModelCalls ==
    /\ SynthesisCompleted
       => [k \in 1..Len(SynthesisCalls) |-> SynthesisCalls[k].arg[1]]
            = <<"draft", "critique", "refine">>
    /\ Len(SynthesisCalls) <= 3

C9_Witness ==
    /\ pc = "done"
    /\ SynthesisCompleted
    /\ critique = ""
    /\ Len(SynthesisCalls) = 3

\* C10: in a run with a stream_callback every stage's status line is put on
\* the queue before the stage's work is started: retrieval's before the index
\* query, the scraper's before the external search, the parser's before the
\* first per-chunk model call, and the draft, critique and refine lines each
\* before their model call.
PutBefore(k, text) ==
    \E j \in 1..(k - 1) : trace[j].op = "put" /\ trace[j].arg = text

StatusOfWork(k) ==
    CASE trace[k].op = "index_query" -> STATUS_RETRIEVAL
      [] trace[k].op = "search" -> STATUS_SCRAPER
      [] trace[k].op = "llm" /\ trace[k].arg[1] = "parse" -> STATUS_PARSER
      [] trace[k].op = "llm" /\ trace[k].arg[1] = "draft" -> STATUS_DRAFT
      [] trace[k].op = "llm" /\ trace[k].arg[1] = "critique" -> STATUS_CRITIQUE
      [] trace[k].op = "llm" /\ trace[k].arg[1] = "refine" -> STATUS_REFINE

C10_StatusBeforeWork ==
    stream_callback
    => /\ \A k \in 1..Len(trace) :
            trace[k].op \in {"index_query", "search", "llm"}
            => PutBefore(k, StatusOfWork(k))
       /\ Len(queue) = Len(SelectSeq(trace, LAMBDA r : r.op = "put"))

C10_Witness ==
    /\ stream_callback
    /\ pc = "done"
    /\ Len(Searches) = 1
    /\ Len(SynthesisCalls) = 3
    /\ \E k \in 1..Len(LlmCalls) : LlmCalls[k].arg[1] = "parse"
    /\ Len(queue) >= 7

\* ---- reading the stream ----
Puts == SelectSeq(trace, LAMBDA r : r.op = "put")
\* the queue's messages event_generator has yielded (after "Processing query...")
Delivered == SelectSeq(SubSeq(sent, 2, Len(sent)), LAMBDA y : ~y.json)
Terminals == SelectSeq(sent, LAMBDA y : y.json)
LastSent == sent[Len(sent)]

\* C11: the messages reach the client in the order they were enqueued: the
\* k-th message yielded is the k-th message put on the queue, and the queue
\* holds the following ones in their order.
C11_FifoDelivery ==
    api_key
    => /\ Len(Delivered) + Len(queue) = Len(Puts)
       /\ \A k \in 1..Len(Delivered) :
            Delivered[k].data = encode_sse_event(Puts[k].arg, "message")
       /\ \A k \in 1..Len(queue) :
            queue[k] = encode_sse_event(Puts[Len(Delivered) + k].arg, "message")

C11_Witness ==
    /\ api_key
    /\ Len(Delivered) >= 3
    /\ Len(queue) >= 2

\* C12: when the stream has ended, every message the task enqueued has been
\* yielded to the client, before the final event, and none is left in the
\* queue.
C12_EveryEventDelivered ==
    (cpc = "closed" /\ api_key)
    => /\ queue = <<>>
       /\ Len(Delivered) = Len(Puts)

\* C13: a stream has at most one final event (complete or error), nothing is
\* yielded after it, a stream that has ended has exactly one; and every
\* stream of an accepted request ends, unless the client goes away.
C13_OneTerminalEvent ==
    /\ [](/\ Len(Terminals) <= 1
          /\ Terminals # <<>> => (LastSent.json /\ cpc = "closed")
          /\ cpc = "closed" => (Len(Terminals) = 1
                                /\ LastSent.data.status \in {"complete", "error"}))
    /\ <>(cpc \in {"closed", "cancelled", "rejected"})

C13_Witness ==
    /\ cpc = "closed"
    /\ api_key
    /\ Len(sent) >= 4
    /\ Len(Terminals) = 1

\* C14: when a step of the pipeline has raised, the final event of the stream
\* is an error event.
C14_ErrorEventOnException ==
    (cpc = "closed" /\ Excepted) => LastSent.data.status = "error"

\* C15: when a step raises, no later step executes and run_agent does not
\* raise: it returns the mock answer, non-empty, with retrieved_chunks and
\* parsed_chunks empty and scraper_needed false, however far the run had got.
C15_FallbackResult ==
    /\ pc # "raised"
    /\ Excepted
       => /\ pc = "done"
          /\ trace[Len(trace)].op = "except"
          /\ result.final_answer \notin {None, ""}
          /\ result.final_answer = mock_answer(args.kb_type, args.query)
          /\ result.creative_output = result.final_answer
          /\ result.retrieved_chunks = <<>>
          /\ result.parsed_chunks = <<>>
          /\ result.scraper_needed = FALSE
          /\ result.kb_type = args.kb_type

C15_Witness ==
    /\ pc = "done"
    /\ Excepted
    /\ Entered("creative")
    /\ state.retrieved_chunks # <<>>
    /\ state.parsed_chunks # <<>>
    /\ Len(SynthesisCalls) = 3

\* C16: when the index query of Retrieval raises, the caller is told of an
\* error: the stream's final event is an error event, unlike that of a run
\* whose index answered with no chunks.
C16_IndexFailurePropagated ==
    (cpc = "closed" /\ api_key /\ Excepted /\ IndexResults = <<>>)
    => LastSent.data.status = "error"

\* C17: a request whose kb is none of resumes, api_docs, recipes, supplements
\* is rejected: no step runs, nothing is put on a queue, nothing is yielded.
C17_UnknownKbRejected ==
    request.kb \notin {"resumes", "api_docs", "recipes", "supplements"}
    => /\ cpc \in {"request", "rejected"}
       /\ pc = "idle"
       /\ trace = <<>>
       /\ queue = <<>>
       /\ sent = <<>>

C17_Witness ==
    /\ cpc = "rejected"
    /\ request.kb = "other"

\* C18: once the client has disconnected the task is cancelled: it takes no
\* further step.
C18_TaskCancelledOnDisconnect ==
    [][cpc = "cancelled" => (pc' = pc /\ trace' = trace /\ queue' = queue)]_vars

\* C19: a put() made on a closed SSEGenerator leaves its queue unchanged,
\* whoever calls it and however the calls of put() and close() interleave.
C19_NoPutAfterClose ==
    [][(/\ g_closed
        /\ Len(g_calls') = Len(g_calls) + 1
        /\ g_calls'[Len(g_calls')].op = "put")
       => g_queue' = g_queue]_vars

C19_Witness ==
    /\ \E i \in 1..Len(g_calls) : g_calls[i].op = "put" /\ g_calls[i].closed
    /\ \E i \in 1..Len(g_calls) : g_calls[i].op = "put" /\ ~g_calls[i].closed

\* C20: once close() has been called, the consumer of iterator() ends its
\* iteration, in particular one that was suspended in get() on an empty queue.
C20_CloseUnblocksConsumer ==
    (g_closed /\ ipc \in {"test", "get"}) ~> (ipc = "ended")

C20_Witness ==
    /\ ipc = "ended"
    /\ \E i \in 1..Len(g_calls) : g_calls[i].op = "close" /\ g_calls[i].waiting

\* what the route yields for a status line a node has put on the queue
StatusEvent(text) == YieldText(encode_sse_event(text, "message"))

\* a request on "resumes" served to its end, retrieval having returned 3
\* chunks and no call having raised
ResumesScenario ==
    /\ api_key
    /\ request.kb = "resumes"
    /\ cpc = "closed"
    /\ RetrievalReturned(3)
    /\ ~Excepted

C22_AugmentationBeforeSummarization ==
    (args.kb_type = "supplements" /\ RetrievalReturned(1))
    => /\ pc = "scraper_tool" \/ Entered("scraper_tool")
       /\ \A k \in 1..Len(trace) :
            (\/ trace[k] = Op("node", "parser")
             \/ trace[k] = Op("put", STATUS_PARSER)
             \/ trace[k].op = "llm")
            => /\ \E j \in 1..(k - 1) : trace[j] = Op("node", "scraper_tool")
               /\ stream_callback => PutBefore(k, STATUS_SCRAPER)

C22_Witness ==
    /\ pc = "done"
    /\ args.kb_type = "supplements"
    /\ RetrievalReturned(1)
    /\ stream_callback
    /\ Entered("parser")
    /\ LlmCalls # <<>>
    /\ \E k \in 1..Len(trace) : trace[k] = Op("put", STATUS_SCRAPER)

\* C23: the str encode_sse_event returns, split on newlines, is the line
\* "event: <kind>", then the data lines, then the two empty pieces a blank
\* line leaves.  For a text with k newlines there are k+1 data lines, each
\* "data: " followed by one line of the text, which joined by newlines give
\* the text back; for a dict there is one data line.
C23_Framing ==
    enc_out # None
    => LET lines == split(enc_out)
           n == Len(lines) - 3
           content == [k \in 1..n |-> Tail(lines[k + 1])]
       IN  /\ n >= 1
           /\ lines[1] = <<"event: ", enc_type>>
           /\ \A k \in 1..n : lines[k + 1] # <<>> /\ Head(lines[k + 1]) = "data: "
           /\ lines[n + 2] = <<>>
           /\ lines[n + 3] = <<>>
           /\ IF enc_data.is_str
              THEN /\ n = Len(SelectSeq(enc_data.value, LAMBDA c : c = NL)) + 1
                   /\ join(content) = enc_data.value
                   /\ lines = encode_sse_event(split(enc_data.value), enc_type)
              ELSE /\ n = 1
                   /\ content[1] = json_dumps(enc_data.value)

C23_Witness ==
    /\ enc_out # None
    /\ enc_data.is_str
    /\ Len(SelectSeq(enc_data.value, LAMBDA c : c = NL)) = 2
    /\ Len(split(enc_out)) = 6

C25_FlagClearedOnExit ==
    [][(/\ pc \in {"scraper_tool", "scraper_search", "scraper_requery"}
        /\ pc' \notin {"scraper_tool", "scraper_search", "scraper_requery",
                       "except", "raised"})
       => ~state'.scraper_needed]_vars

\* C26: every index query of a run is made with the same document filter, and
\* a run scoped to one document holds chunks of that document only.
C26_RequerySameScope ==
    /\ \A j, k \in 1..Len(trace) :
        (trace[j].op = "index_query" /\ trace[k].op = "index_query")
        => trace[j].arg = trace[k].arg
    /\ state.document_id \notin {None, ""}
       => \A k \in 1..Len(state.retrieved_chunks) :
            state.retrieved_chunks[k].metadata.document_id = state.document_id

\* C27: when the external search comes back empty, scraper_tool_node returns
\* the state it was given, retrieved_chunks included, and the run goes on
\* along the scraper's edge, not into the except clause.
C27_EmptySearchNotAnError ==
    [][(pc = "scraper_search" /\ pc' # "scraper_search" /\ products' = 0)
       => /\ state' = state
          /\ pc' = route_scraper_tool(state)
          /\ pc' \in {"parser", "creative", END}]_vars

C27_Witness ==
    /\ pc = "done"
    /\ products = 0
    /\ Searches # <<>>
    /\ ~Excepted
    /\ Entered("parser")
    /\ Len(result.retrieved_chunks) = 1

\* C28: a model call that fails for one chunk in parser_node does not end the
\* run in the except clause.
C28_ParseFailureDowngraded ==
    \A k \in 2..Len(trace) :
        trace[k].op = "except"
        => ~(trace[k - 1].op = "llm" /\ trace[k - 1].arg[1] = "parse")

\* the content the model returned for the draft, critique or refine call
LlmResults == SelectSeq(trace, LAMBDA r : r.op = "llm_result")
ResultOf(kind) ==
    LET k == CHOOSE k \in 1..Len(LlmResults) : LlmResults[k].arg[1] = kind
    IN  LlmResults[k].arg[2]

\* C29: the critique prompt is made from the query, the context and the
\* draft call's output, the refine prompt from those and the critique call's
\* output as well, each call follows the result it uses, and when
\* creative_node has returned final_answer and creative_output both are the
\* refine call's output.
C29_CallsDependOnPriorOutputs ==
    /\ \A k \in 1..Len(SynthesisCalls) :
        LET call == SynthesisCalls[k].arg
            context == context_of(state.parsed_chunks)
        IN  /\ k = 1 => call = <<"draft", args.query, context>>
            /\ k = 2 => /\ Len(LlmResults) >= 1
                        /\ call = <<"critique", args.query, context, ResultOf("draft")>>
            /\ k = 3 => /\ Len(LlmResults) >= 2
                        /\ call = <<"refine", args.query, context,
                                    ResultOf("draft"), ResultOf("critique")>>
    /\ SynthesisCompleted
       => /\ Len(LlmResults) = 3
          /\ state.final_answer = ResultOf("refine")
          /\ state.creative_output = ResultOf("refine")
          /\ pc = "done" => result.final_answer = ResultOf("refine")

C29_Witness ==
    /\ pc = "done"
    /\ SynthesisCompleted
    /\ draft = "txt"
    /\ critique = ""
    /\ result.final_answer = "txt"
    /\ Len(state.parsed_chunks) >= 2

\* the fields of AgentState a step leaves as they were
Only(fields) == \A f \in (DOMAIN state) \ fields : state'[f] = state[f]

RetrievalPcs == {"retrieval", "retrieval_query"}
ScraperPcs == {"scraper_tool", "scraper_search", "scraper_requery"}
ParserPcs == {"parser", "parser_llm"}
CreativePcs == {"creative", "draft_status", "draft_llm", "critique_status",
                "critique_llm", "refine_status", "refine_llm"}

\* C30: a step of retrieval_node changes at most retrieved_chunks,
\* scraper_needed and scraper_query; of scraper_tool_node, retrieved_chunks
\* and scraper_needed; of parser_node, parsed_chunks; of creative_node,
\* creative_output and final_answer; no step outside the nodes changes the
\* state; kb_type, query and document_id never change; and nothing changes
\* once final_answer is set.
C30_FrameOfEachStep ==
    [][/\ DOMAIN state' = DOMAIN state
       /\ pc \in RetrievalPcs
          => Only({"retrieved_chunks", "scraper_needed", "scraper_query"})
       /\ pc \in ScraperPcs => Only({"retrieved_chunks", "scraper_needed"})
       /\ pc \in ParserPcs => Only({"parsed_chunks"})
       /\ pc \in CreativePcs => Only({"creative_output", "final_answer"})
       /\ pc \notin (RetrievalPcs \cup ScraperPcs \cup ParserPcs \cup CreativePcs)
          => state' = state
       /\ state'.kb_type = args.kb_type
       /\ state'.query = args.query
       /\ state'.document_id = args.document_id
       /\ state.final_answer # None => state' = state]_vars

C30_Witness ==
    /\ pc = "done"
    /\ ~Excepted
    /\ NodeNames = <<"retrieval", "scraper_tool", "parser", "creative", END>>
    /\ products > 0
    /\ state.final_answer = "txt"
    /\ state.scraper_query # None
    /\ Len(state.parsed_chunks) >= 2

\* C31: a generator that is registered with the manager is open and was
\* never closed; one that is no longer registered is closed and was closed
\* once: close_connection closes and removes in one step, and a second
\* close_connection does not close again.
C31_RegisteredIffOpen ==
    /\ g_registered => (~g_closed /\ CloseCalls = <<>>)
    /\ ~g_registered => (g_closed /\ Len(CloseCalls) = 1)
    /\ Len(SelectSeq(g_queue, LAMBDA d : d = None)) <= 1

C31_Witness ==
    /\ ~g_registered
    /\ g_closed
    /\ ipc = "ended"
    /\ Len(PutCalls) >= 2

C34_ParserLeadsToCreative ==
    /\ []((entry = "run_agent" /\ pc \in ParserPcs)
          => state.retrieved_chunks # <<>>)
    /\ [][(entry = "run_agent" /\ pc \in ParserPcs /\ pc' \notin ParserPcs)
          => \/ pc' = "except"
             \/ /\ pc' = "creative"
                /\ Len(state'.parsed_chunks) = Len(state'.retrieved_chunks)
                /\ state'.parsed_chunks # <<>>
                /\ state'.final_answer = None]_vars

C34_Witness ==
    /\ entry = "run_agent"
    /\ pc = "creative"
    /\ Entered("parser")
    /\ Entered("scraper_tool")
    /\ Len(state.parsed_chunks) >= 2

\* C35: the stream of a run ends with a "complete" event only when the run's
\* final_answer is set; a run that returns without one ends with the
\* "No results found." error event.
C35_CompleteOnlyWithAnswer ==
    (cpc = "closed" /\ api_key)
    => IF result.final_answer # None
       THEN LastSent.data.status = "complete"
       ELSE LastSent.data = [status |-> "error", message |-> "No results found."]

\* C36: the sources of the complete event are the metadata of the chunks the
\* run ended with (the list re-queried after augmentation when there was
\* one), one entry per chunk in the same order; after the error fallback the
\* sources are empty.
C36_SourcesMatchChunks ==
    (cpc = "closed" /\ api_key /\ LastSent.data.status = "complete")
    => LET chunks == IF Excepted THEN <<>> ELSE state.retrieved_chunks
       IN  LastSent.data.sources = [k \in 1..Len(chunks) |-> chunks[k].metadata]

C36_Witness ==
    /\ cpc = "closed"
    /\ api_key
    /\ ~Excepted
    /\ Entered("scraper_tool")
    /\ LastSent.data.status = "complete"
    /\ Len(LastSent.data.sources) >= 2
    /\ LastSent.data.sources[1] # LastSent.data.sources[2]

\* after the fallback: chunks had been retrieved, the sources are empty
C36_WitnessFallback ==
    /\ cpc = "closed"
    /\ api_key
    /\ Excepted
    /\ state.retrieved_chunks # <<>>
    /\ LastSent.data.sources = <<>>

\* C37: a status text reaches the client framed once: the event yielded for
\* the k-th status is encode_sse_event of the k-th text put, its data lines
\* being the lines of that text.
C37_FramedOnce ==
    api_key
    => \A k \in 1..Len(Delivered) :
           Delivered[k].frame = encode_sse_event(Puts[k].arg, "message")

\* C38: when iterator() ends it has yielded every item that put() enqueued
\* before close() was called, in order: closing drops no buffered item.
C38_BufferedYieldedBeforeEnd ==
    ipc = "ended"
    => LET enqueued == SelectSeq(PutCalls, LAMBDA c : ~c.closed)
       IN  g_yielded = [k \in 1..Len(enqueued) |-> enqueued[k].arg]

\* C40: close() is idempotent: a close() on a generator that is already
\* closed changes neither its flag nor its queue, so the queue never holds
\* more than the one end signal.
C40_CloseIdempotent ==
    [][(/\ g_closed
        /\ Len(g_calls') = Len(g_calls) + 1
        /\ g_calls'[Len(g_calls')].op = "close")
       => (g_closed' = g_closed /\ g_queue' = g_queue)]_vars

\* C33: when a call of search_products_internal has returned or has been
\* cancelled, every browser launched for it has been closed.
C33_BrowserReleased ==
    spc \in {"returned", "cancelled"} => closed = launched

\* C39: a stream of create_streaming_response that has ended has yielded
\* every token the callback enqueued, in order, then the error event when the
\* callback raised, then one complete event, the only one and the last.
C39_TokensBeforeComplete ==
    s_pc = "closed"
    => LET tail == IF s_task = "raised"
                   THEN <<STREAM_ERROR, STREAM_COMPLETE>>
                   ELSE <<STREAM_COMPLETE>>
       IN  [k \in 1..Len(s_sent) |-> s_sent[k].data] = s_tokens \o tail

====
